---- MODULE Spec2Model ----
(***************************************************************************)
(* Model of ProductManager (src/script.js): the in-memory product          *)
(* collection, the edit session, the debounced search and the pagination.  *)
(*                                                                         *)
(* Strings are sequences of one-character strings, so that trim,           *)
(* toLowerCase, includes, parseInt and parseFloat are computed and not     *)
(* assumed.  A number is NaN or a value; a price is counted in tenths      *)
(* (the inputs carry at most one fractional digit), a stock in units.      *)
(*                                                                         *)
(* Every listener runs to completion: one action is one whole handler.     *)
(* The variable event records which handler ran last, with what argument   *)
(* and to what effect, until the handler returns to the event loop.        *)
(* The timers pending in the host are the set timers; the clock read by    *)
(* Date.now() is the variable now.  Spec states the safety of the program; *)
(* FairSpec adds that listeners return and that a due timer is run.        *)
(***************************************************************************)
EXTENDS Integers, Sequences, FiniteSets, TLC

VARIABLES products, currentView, currentPage, searchTerm, editingId,
          debounceTimer, timers, now, event

vars == <<products, currentView, currentPage, searchTerm, editingId,
          debounceTimer, timers, now, event>>

\* ------------------------------------------------------------------ bounds
MaxProducts == 7
MaxClock == 1
MaxTimers == 2

\* ------------------------------------------------------- program constants
itemsPerPage == 6

\* null is a value no string is equal to
null == <<"null">>

\* a number is NaN or a value v
NaN == [nan |-> TRUE, v |-> 0]

Num(v) == [nan |-> FALSE, v |-> v]

\* no handle: the initial value of debounceTimer
NoTimer == 0

\* filler of the text fields an event does not use
None == "none"

\* filler of the page field of an event that is not a changePage
NoPage == -1

\* ------------------------------------------------------------ JS strings
IsSpace(c) == c = " "

Digits == <<"0", "1", "2", "3", "4", "5", "6", "7", "8", "9">>

IsDigit(c) == \E i \in 1..10 : Digits[i] = c

DigitVal(c) == (CHOOSE i \in 1..10 : Digits[i] = c) - 1

RECURSIVE TrimStart(_)
TrimStart(s) ==
    IF s # <<>> /\ IsSpace(Head(s)) THEN TrimStart(Tail(s)) ELSE s

RECURSIVE TrimEnd(_)
TrimEnd(s) ==
    IF s # <<>> /\ IsSpace(s[Len(s)]) THEN TrimEnd(SubSeq(s, 1, Len(s) - 1)) ELSE s

Trim(s) == TrimEnd(TrimStart(s))

LowerChar(c) ==
    CASE c = "A" -> "a"
      [] c = "B" -> "b"
      [] c = "X" -> "x"
      [] OTHER -> c

ToLowerCase(s) == [i \in 1..Len(s) |-> LowerChar(s[i])]

Includes(s, t) ==
    \E k \in 0..(Len(s) - Len(t)) : SubSeq(s, k + 1, k + Len(t)) = t

RECURSIVE NatToString(_)
NatToString(n) ==
    IF n < 10 THEN <<Digits[n + 1]>>
    ELSE NatToString(n \div 10) \o <<Digits[(n % 10) + 1]>>

\* the longest prefix of s made of digits
RECURSIVE DigitPrefix(_)
DigitPrefix(s) ==
    IF s # <<>> /\ IsDigit(Head(s)) THEN <<Head(s)>> \o DigitPrefix(Tail(s)) ELSE <<>>

RECURSIVE DigitsValue(_)
DigitsValue(s) ==
    IF s = <<>> THEN 0 ELSE DigitsValue(SubSeq(s, 1, Len(s) - 1)) * 10 + DigitVal(s[Len(s)])

Unsigned(s) == IF s # <<>> /\ (Head(s) = "-" \/ Head(s) = "+") THEN Tail(s) ELSE s

Sign(s) == IF s # <<>> /\ Head(s) = "-" THEN -1 ELSE 1

\* parseInt(str): leading white space skipped, optional sign, then the
\* longest run of decimal digits; NaN when there is none
parseInt(str) ==
    LET s == TrimStart(str)
        d == DigitPrefix(Unsigned(s))
    IN  IF d = <<>> THEN NaN ELSE Num(Sign(s) * DigitsValue(d))

\* parseFloat(str): as parseInt, with an optional fraction; the value is in
\* tenths
parseFloat(str) ==
    LET s == TrimStart(str)
        u == Unsigned(s)
        d == DigitPrefix(u)
        r == SubSeq(u, Len(d) + 1, Len(u))
        f == IF r # <<>> /\ Head(r) = "." THEN DigitPrefix(Tail(r)) ELSE <<>>
        tenths == IF f = <<>> THEN 0 ELSE DigitVal(f[1])
    IN  IF d = <<>> /\ f = <<>> THEN NaN
        ELSE Num(Sign(s) * (DigitsValue(d) * 10 + tenths))

isNaN(x) == x.nan

\* x < 0 for a number x: false of NaN
Negative(x) == ~x.nan /\ x.v < 0

\* a string or null as a condition
TruthyString(s) == s # null /\ s # <<>>

\* x || 0 for a number x
OrZero(x) == IF isNaN(x) \/ x.v = 0 THEN Num(0) ELSE x

\* Math.ceil(a / b) for a >= 0, b > 0
Ceil(a, b) == IF a % b = 0 THEN a \div b ELSE (a \div b) + 1

\* Array.prototype.slice(start, end) for 0 <= start <= end, 0-based
Slice(s, start, end) ==
    LET lo == IF start > Len(s) THEN Len(s) ELSE start
        hi == IF end > Len(s) THEN Len(s) ELSE end
    IN  SubSeq(s, lo + 1, hi)

\* prods.findIndex(p => p.id === id), 1-based, 0 when absent (-1 in the source)
findIndexById(prods, id) ==
    IF \E i \in 1..Len(prods) : prods[i].id = id
    THEN CHOOSE i \in 1..Len(prods) :
            prods[i].id = id /\ \A j \in 1..(i - 1) : prods[j].id # id
    ELSE 0

\* ------------------------------------------------------------------ inputs
\* the form's fields at a submit: two drafts that pass validation and one
\* draft for each way a field can be wrong
GoodDraft ==
    [name |-> <<"x", "A">>, price |-> <<"5">>, category |-> <<"t">>,
     stock |-> <<"3">>, description |-> <<>>]

VariantDraft ==
    [name |-> <<" ", "B", "x", " ">>, price |-> <<"1", ".", "5">>,
     category |-> <<"t">>, stock |-> <<"2", ".", "5">>, description |-> <<" ">>]

BadDrafts ==
    { [GoodDraft EXCEPT !.name = <<" ">>],
      [GoodDraft EXCEPT !.price = <<"-", "5">>],
      [GoodDraft EXCEPT !.price = <<"x">>],
      [GoodDraft EXCEPT !.category = <<>>],
      [GoodDraft EXCEPT !.stock = <<"-", "1">>] }

Drafts == {GoodDraft, VariantDraft} \cup BadDrafts

\* what can be typed into the search box
SearchInputs == { <<>>, <<" ">>, <<" ", "A">> }

Views == {"list", "card"}

\* ids a caller can pass to editProduct and deleteProduct
IdArgs == { NatToString(t) : t \in 0..MaxClock }

\* page numbers a caller can pass to changePage: from 0 to one past the last
\* page of a full collection
PageArgs == 0..(Ceil(MaxProducts, itemsPerPage) + 1)

\* ------------------------------------------------------------- validation
\* the fields carrying the required attribute in the form's markup
RequiredFields == {"name", "price", "category", "stock"}

\* validateField with the sign of the price left unchecked
validateFieldUnsigned(fieldName, fieldValue) ==
    LET value == Trim(fieldValue)
    IN  IF fieldName \in RequiredFields /\ value = <<>> THEN FALSE
        ELSE IF fieldName = "price" /\ value # <<>> /\ isNaN(parseFloat(value)) THEN FALSE
        ELSE IF fieldName = "stock" /\ value # <<>>
                /\ (isNaN(parseInt(value)) \/ Negative(parseInt(value))) THEN FALSE
        ELSE TRUE

validateField(fieldName, fieldValue) ==
    LET value == Trim(fieldValue)
    IN  IF fieldName \in RequiredFields /\ value = <<>> THEN FALSE
        ELSE IF fieldName = "price" /\ value # <<>>
                /\ (isNaN(parseFloat(value)) \/ Negative(parseFloat(value))) THEN FALSE
        ELSE IF fieldName = "stock" /\ value # <<>>
                /\ (isNaN(parseInt(value)) \/ Negative(parseInt(value))) THEN FALSE
        ELSE TRUE

\* validateForm keeping only the verdict of the last field it visits
validateFormLastField(form) == validateField("stock", form["stock"])

validateForm(form) == \A f \in RequiredFields : validateField(f, form[f])

\* ------------------------------------------------------------ derived view
\* getFilteredProducts comparing the name as stored, without toLowerCase
getFilteredProductsCaseSensitive(prods, term) ==
    IF ~TruthyString(term) THEN prods
    ELSE SelectSeq(prods, LAMBDA p : Includes(p.name, term))

getFilteredProducts(prods, term) ==
    IF ~TruthyString(term) THEN prods
    ELSE SelectSeq(prods, LAMBDA p : Includes(ToLowerCase(p.name), term))

\* getPaginatedProducts with Math.floor in place of Math.ceil
getPaginatedProductsFloor(prods, term, page) ==
    LET filtered == getFilteredProducts(prods, term)
        startIndex == (page - 1) * itemsPerPage
        endIndex == startIndex + itemsPerPage
    IN  [products |-> Slice(filtered, startIndex, endIndex),
         total |-> Len(filtered),
         totalPages |-> Len(filtered) \div itemsPerPage]

getPaginatedProducts(prods, term, page) ==
    LET filtered == getFilteredProducts(prods, term)
        startIndex == (page - 1) * itemsPerPage
        endIndex == startIndex + itemsPerPage
    IN  [products |-> Slice(filtered, startIndex, endIndex),
         total |-> Len(filtered),
         totalPages |-> Ceil(Len(filtered), itemsPerPage)]

\* --------------------------------------------------------------- the state
DummyImage == "photo-1633174524827"

\* the messages handed to showNotification
AddedNotice == "Product added successfully!"

UpdatedNotice == "Product updated successfully!"

DeletedNotice == "Product deleted successfully!"

\* event: what the handler that ran last was called with and what it did
\* (rendered: it called renderProducts; notice: the message it handed to
\* showNotification); Idle once control is back in the event loop
\* the handler's argument is in the field of its kind: form (a submit), id (an
\* edit, a delete), term (a keystroke, the timer), page, view; the other
\* fields hold fillers of the same kind
NoForm ==
    [name |-> null, price |-> null, category |-> null, stock |-> null,
     description |-> null]

NoProduct ==
    [id |-> null, name |-> null, price |-> NaN, category |-> null,
     stock |-> NaN, description |-> null, image |-> None]

Event(op, res, rendered) ==
    [op |-> op, res |-> res, rendered |-> rendered, notice |-> None,
     form |-> NoForm, id |-> null, term |-> null, page |-> NoPage, view |-> None,
     product |-> NoProduct, pre |-> <<>>]

Idle == Event("idle", None, FALSE)

Init ==
    /\ products = <<>>
    /\ currentView = "list"
    /\ currentPage = 1
    /\ searchTerm = <<>>
    /\ editingId = null
    /\ debounceTimer = NoTimer
    /\ timers = {}
    /\ now = 0
    /\ event = Event("init", None, TRUE)

\* the millisecond clock read by Date.now()
Tick ==
    /\ now < MaxClock
    /\ now' = now + 1
    /\ UNCHANGED <<products, currentView, currentPage, searchTerm, editingId,
                   debounceTimer, timers, event>>

\* productData taking a fresh id from the clock also while editing
productDataFreshId(form) ==
    [id |-> NatToString(now),
     name |-> Trim(form.name),
     price |-> parseFloat(form.price),
     category |-> form.category,
     stock |-> OrZero(parseInt(form.stock)),
     description |-> Trim(form.description),
     image |-> DummyImage]

productData(form) ==
    [id |-> IF TruthyString(editingId) THEN editingId ELSE NatToString(now),
     name |-> Trim(form.name),
     price |-> parseFloat(form.price),
     category |-> form.category,
     stock |-> OrZero(parseInt(form.stock)),
     description |-> Trim(form.description),
     image |-> DummyImage]

\* addProduct with unshift in place of push
addProductAtFront(product) == <<product>> \o products

addProduct(product) == Append(products, product)

\* updateProduct taking the product out and pushing its replacement at the end
updateProductMoveToEnd(product) ==
    LET index == findIndexById(products, product.id)
    IN  IF index # 0
        THEN Append(SubSeq(products, 1, index - 1)
                        \o SubSeq(products, index + 1, Len(products)), product)
        ELSE products

updateProduct(product) ==
    LET index == findIndexById(products, product.id)
    IN  IF index # 0 THEN [products EXCEPT ![index] = product] ELSE products

\* the drafts submitted give the second name to one product at a time: no two
\* products of the collection carry a name other than the first draft's
SingleVariant(prods) ==
    \A i, j \in 1..Len(prods) :
        (prods[i].name # Trim(GoodDraft.name) /\ prods[j].name # Trim(GoodDraft.name))
            => i = j

handleFormSubmit(form) ==
    IF ~validateForm(form)
    THEN /\ event' = [Event("submit", "rejected", FALSE) EXCEPT !.form = form]
         /\ UNCHANGED <<products, currentView, currentPage, searchTerm, editingId,
                        debounceTimer, timers, now>>
    ELSE LET product == productData(form)
             found == \E i \in 1..Len(products) : products[i].id = product.id
         IN  /\ TruthyString(editingId) \/ Len(products) < MaxProducts
             /\ products' = IF TruthyString(editingId) THEN updateProduct(product)
                             ELSE addProduct(product)
             /\ SingleVariant(products')
             /\ editingId' = null
             /\ event' = [Event("submit",
                                IF ~TruthyString(editingId) THEN "added"
                                ELSE IF found THEN "updated" ELSE "notfound",
                                ~TruthyString(editingId) \/ found)
                            EXCEPT !.form = form,
                                   !.notice = IF ~TruthyString(editingId) THEN AddedNotice
                                              ELSE IF found THEN UpdatedNotice ELSE None,
                                   !.product = product,
                                   !.pre = products]
             /\ UNCHANGED <<currentView, currentPage, searchTerm, debounceTimer,
                            timers, now>>

\* products.filter(p => p.id !== id)
without(prods, id) == SelectSeq(prods, LAMBDA p : p.id # id)

\* deleteProduct going back to the first page after the removal
deleteProductResetPage(id, confirmed) ==
    /\ products' = IF confirmed THEN without(products, id) ELSE products
    /\ currentPage' = IF confirmed THEN 1 ELSE currentPage
    /\ event' = IF confirmed
               THEN [Event("delete", "confirmed", TRUE)
                        EXCEPT !.id = id, !.notice = DeletedNotice]
               ELSE Event("delete", "dismissed", FALSE)
    /\ UNCHANGED <<currentView, searchTerm, editingId, debounceTimer, timers, now>>

deleteProduct(id, confirmed) ==
    /\ products' = IF confirmed THEN without(products, id) ELSE products
    /\ event' = IF confirmed
               THEN [Event("delete", "confirmed", TRUE)
                        EXCEPT !.id = id, !.notice = DeletedNotice]
               ELSE Event("delete", "dismissed", FALSE)
    /\ UNCHANGED <<currentView, currentPage, searchTerm, editingId, debounceTimer,
                   timers, now>>

\* editProduct without the return on a product that is not found
editProductUnchecked(id) ==
    /\ editingId' = id
    /\ event' = [Event("edit", "loaded", FALSE) EXCEPT !.id = id]
    /\ UNCHANGED <<products, currentView, currentPage, searchTerm,
                   debounceTimer, timers, now>>

editProduct(id) ==
    LET found == \E i \in 1..Len(products) : products[i].id = id
    IN  /\ editingId' = IF found THEN id ELSE editingId
        /\ event' = [Event("edit", IF found THEN "loaded" ELSE "notfound", FALSE)
                        EXCEPT !.id = id]
        /\ UNCHANGED <<products, currentView, currentPage, searchTerm,
                       debounceTimer, timers, now>>

cancelEdit ==
    /\ editingId' = null
    /\ event' = Event("cancel", None, FALSE)
    /\ UNCHANGED <<products, currentView, currentPage, searchTerm, debounceTimer,
                   timers, now>>

\* clearTimeout(handle): the timer, if it is still pending, is removed
clearTimeout(pending, handle) == pending \ {handle}

\* setTimeout hands out a handle that no pending timer uses
FreshTimer(pending) ==
    CHOOSE h \in 1..MaxTimers : h \notin pending /\ \A g \in 1..(h - 1) : g \in pending

\* handleSearch without the clearTimeout of the pending timer
handleSearchNoClear(term) ==
    /\ Cardinality(timers) < MaxTimers
    /\ searchTerm' = Trim(ToLowerCase(term))
    /\ timers' = timers \cup {FreshTimer(timers)}
    /\ debounceTimer' = FreshTimer(timers)
    /\ event' = [Event("search",
                        IF debounceTimer \in timers THEN "rescheduled"
                        ELSE "scheduled",
                        FALSE)
                    EXCEPT !.term = term]
    /\ UNCHANGED <<products, currentView, currentPage, editingId, now>>

handleSearch(term) ==
    LET cleared == IF debounceTimer # NoTimer THEN clearTimeout(timers, debounceTimer)
                   ELSE timers
    IN  /\ Cardinality(cleared) < MaxTimers
        /\ searchTerm' = Trim(ToLowerCase(term))
        /\ timers' = cleared \cup {FreshTimer(cleared)}
        /\ debounceTimer' = FreshTimer(cleared)
        /\ event' = [Event("search",
                            IF debounceTimer \in timers THEN "rescheduled"
                            ELSE "scheduled",
                            FALSE)
                        EXCEPT !.term = term]
        /\ UNCHANGED <<products, currentView, currentPage, editingId, now>>

\* the callback rendering without the reset of the page
debounceFireNoReset(h) ==
    /\ h \in timers
    /\ timers' = timers \ {h}
    /\ event' = [Event("fire", None, TRUE) EXCEPT !.term = searchTerm]
    /\ UNCHANGED <<products, currentView, currentPage, searchTerm, editingId,
                   debounceTimer, now>>

\* the callback handed to setTimeout in handleSearch
debounceFire(h) ==
    /\ h \in timers
    /\ timers' = timers \ {h}
    /\ currentPage' = 1
    /\ event' = [Event("fire", None, TRUE) EXCEPT !.term = searchTerm]
    /\ UNCHANGED <<products, currentView, searchTerm, editingId, debounceTimer,
                   now>>

\* switchView going back to the first page
switchViewResetPage(view) ==
    /\ currentView' = view
    /\ currentPage' = 1
    /\ event' = [Event("view", None, TRUE) EXCEPT !.view = view]
    /\ UNCHANGED <<products, searchTerm, editingId, debounceTimer, timers, now>>

switchView(view) ==
    /\ currentView' = view
    /\ event' = [Event("view", None, TRUE) EXCEPT !.view = view]
    /\ UNCHANGED <<products, currentPage, searchTerm, editingId, debounceTimer,
                   timers, now>>

\* changePage accepting the page after the last one
changePagePastEnd(page) ==
    LET totalPages == getPaginatedProducts(products, searchTerm, currentPage).totalPages
        ok == page >= 1 /\ page <= totalPages + 1
    IN  /\ currentPage' = IF ok THEN page ELSE currentPage
        /\ event' = [Event("page", IF ok THEN "moved" ELSE "ignored", ok)
                        EXCEPT !.page = page]
        /\ UNCHANGED <<products, currentView, searchTerm, editingId, debounceTimer,
                       timers, now>>

changePage(page) ==
    LET totalPages == getPaginatedProducts(products, searchTerm, currentPage).totalPages
        ok == page >= 1 /\ page <= totalPages
    IN  /\ currentPage' = IF ok THEN page ELSE currentPage
        /\ event' = [Event("page", IF ok THEN "moved" ELSE "ignored", ok)
                        EXCEPT !.page = page]
        /\ UNCHANGED <<products, currentView, searchTerm, editingId, debounceTimer,
                       timers, now>>

\* the handler returns and the event loop takes the next event
Return ==
    /\ event.op # "idle"
    /\ event' = Idle
    /\ UNCHANGED <<products, currentView, currentPage, searchTerm, editingId,
                   debounceTimer, timers, now>>

Next ==
    \/ Tick
    \/ Return
    \/ event.op = "idle" /\ \E form \in Drafts : handleFormSubmit(form)
    \/ event.op = "idle" /\ \E id \in IdArgs, confirmed \in BOOLEAN : deleteProduct(id, confirmed)
    \/ event.op = "idle" /\ \E id \in IdArgs : editProduct(id)
    \/ event.op = "idle" /\ cancelEdit
    \/ event.op = "idle" /\ \E term \in SearchInputs : handleSearch(term)
    \/ event.op = "idle" /\ \E h \in 1..MaxTimers : debounceFire(h)
    \/ event.op = "idle" /\ \E view \in Views : switchView(view)
    \/ event.op = "idle" /\ \E page \in PageArgs : changePage(page)

Spec == Init /\ [][Next]_vars

\* the event loop runs the callback of a pending timer
TimerFires == event.op = "idle" /\ \E h \in 1..MaxTimers : debounceFire(h)

\* every listener returns, and the event loop, each time it is idle, may run
\* the callback of a timer that is due: a due timer is not passed over forever
FairSpec == Spec /\ WF_vars(Return) /\ SF_vars(TimerFires)

\* ---------------------------------------------------------------- properties
\* the state a handler may change, other than the record of the event
session == <<products, currentView, currentPage, searchTerm, editingId>>

\* this step is the handler op running: the event loop was idle and hands
\* the event to the handler
Handles(op) == event.op = "idle" /\ event'.op = op

IdsOf(prods) == [i \in 1..Len(prods) |-> prods[i].id]

\* the term occurs in the name at some offset, letter case ignored on both sides
Matches(name, term) ==
    \E k \in 0..(Len(name) - Len(term)) :
        \A j \in 1..Len(term) : LowerChar(name[k + j]) = LowerChar(term[j])

\* the products whose name matches the typed text once trimmed, in collection
\* order: the j-th of them is the product at the j-th smallest matching index
Matching(prods, typed) ==
    LET t == Trim(typed)
        M == { i \in 1..Len(prods) : t = <<>> \/ Matches(prods[i].name, t) }
    IN  [j \in 1..Cardinality(M) |->
            prods[CHOOSE i \in M : Cardinality({ m \in M : m <= i }) = j]]

\* the least number of pages of itemsPerPage products that hold count products
PagesFor(count) ==
    CHOOSE t \in 0..count :
        /\ t * itemsPerPage >= count
        /\ \A u \in 0..count : u * itemsPerPage >= count => t <= u

Min(a, b) == IF a <= b THEN a ELSE b

\* a required field is empty after trimming, the price is not a non-negative
\* number or the stock is not a non-negative integer
FailsValidation(form) ==
    \/ \E f \in {"name", "price", "category", "stock"} : Trim(form[f]) = <<>>
    \/ isNaN(parseFloat(Trim(form.price))) \/ Negative(parseFloat(Trim(form.price)))
    \/ isNaN(parseInt(Trim(form.stock))) \/ Negative(parseInt(Trim(form.stock)))

\* C1: all products of the collection have pairwise distinct ids
C1_UniqueIds ==
    \A i, j \in 1..Len(products) : i # j => products[i].id # products[j].id

\* C2: every change of the search term comes with currentPage reset to 1
C2_SearchResetsPage ==
    [][searchTerm' # searchTerm => currentPage' = 1]_vars

\* C3: right after an add, deleting the id given to the new product yields the
\* collection as it was before the add
C3_AddDeleteRoundTrip ==
    (event.op = "submit" /\ event.res = "added")
        => without(products, event.product.id) = event.pre

\* C4: changePage(n) with n < 1 or n > totalPages, totalPages taken over the
\* products matching the search term at the call, changes nothing and does not
\* render
C4_ChangePageOutOfRangeIgnored ==
    [][(Handles("page")
         /\ (event'.page < 1
             \/ event'.page > PagesFor(Len(Matching(products, searchTerm)))))
        => (UNCHANGED <<session, debounceTimer, timers>> /\ ~event'.rendered)]_vars

C4_Witness ==
    /\ event.op = "page"
    /\ event.page > PagesFor(Len(Matching(products, searchTerm)))
    /\ currentPage = 2
    /\ editingId # null

C6_EditSubmitUpdatesSameId ==
    [][(Handles("submit") /\ ~FailsValidation(event'.form) /\ editingId # null)
        => /\ IdsOf(products') = IdsOf(products)
           /\ editingId' = null
           /\ event'.product.id = editingId
           /\ \A i \in 1..Len(products) :
                (products[i].id = editingId
                   /\ \A j \in 1..(i - 1) : products[j].id # editingId)
                => /\ products'[i].id = editingId
                   /\ products'[i].name = Trim(event'.form.name)
                   /\ products'[i].price = parseFloat(event'.form.price)
                   /\ products'[i].stock = OrZero(parseInt(event'.form.stock))
                   /\ products'[i].category = event'.form.category
                   /\ products'[i].description = Trim(event'.form.description)]_vars

C6_Witness ==
    /\ event.op = "submit"
    /\ event.res = "updated"
    /\ Len(products) >= 2
    /\ products # event.pre
    /\ editingId = null

\* C7: at most one debounce timer is pending, a keystroke leaves pending only
\* the timer it has just scheduled, and the timer that fires is that one: it
\* renders the term of the last keystroke and leaves no timer pending
C7_DebounceSingleSlot ==
    /\ [](Cardinality(timers) <= 1)
    /\ [](event.op = "search"
            => timers = {debounceTimer} /\ searchTerm = Trim(ToLowerCase(event.term)))
    /\ [][Handles("fire")
            => /\ timers = {debounceTimer}
               /\ timers' = {}
               /\ event'.term = searchTerm
               /\ event'.rendered]_vars
    /\ [][searchTerm' # searchTerm => Handles("search")]_vars

C7_Witness ==
    /\ event.op = "search"
    /\ event.res = "rescheduled"
    /\ searchTerm # <<>>
    /\ timers = {debounceTimer}

\* C8: totalPages is the least number of pages holding the filtered products
\* (0 for none), and page p shows the filtered products at the 0-based indexes
\* from (p-1)*itemsPerPage up to p*itemsPerPage; 7 products make 2 pages, the
\* second of 1 product
C8_Pagination ==
    LET filtered == getFilteredProducts(products, searchTerm)
        n == Len(filtered)
        view == getPaginatedProducts(products, searchTerm, currentPage)
    IN  /\ view.total = n
        /\ view.totalPages = PagesFor(n)
        /\ n = 0 => view.totalPages = 0
        /\ n = 7 => view.totalPages = 2
        /\ \A p \in 1..view.totalPages :
             LET slice == getPaginatedProducts(products, searchTerm, p).products
             IN  /\ Len(slice) = Min(itemsPerPage, n - (p - 1) * itemsPerPage)
                 /\ \A j \in 1..Len(slice) : slice[j] = filtered[(p - 1) * itemsPerPage + j]
        /\ \A j \in 1..Len(view.products) :
             view.products[j] = filtered[(currentPage - 1) * itemsPerPage + j]
        /\ Len(view.products) =
             Cardinality({ i \in 1..n : /\ i > (currentPage - 1) * itemsPerPage
                                        /\ i <= currentPage * itemsPerPage })

C8_Witness ==
    /\ event.op = "page"
    /\ event.page = 2
    /\ currentPage = 2
    /\ Len(products) = 7
    /\ Len(getPaginatedProducts(products, searchTerm, currentPage).products) = 1

\* C9: the filtered set is the products whose name contains the search term,
\* letter case ignored, in collection order, and the term is the typed text
\* trimmed; typed text that is empty or blank gives the whole collection
C9_FilterBySubstring ==
    /\ getFilteredProducts(products, searchTerm) = Matching(products, searchTerm)
    /\ event.op = "search"
         => /\ getFilteredProducts(products, searchTerm) = Matching(products, event.term)
            /\ Trim(event.term) = <<>>
                 => getFilteredProducts(products, searchTerm) = products

C9_Witness ==
    /\ event.op = "search"
    /\ event.term = <<" ", "A">>
    /\ Len(getFilteredProducts(products, searchTerm)) >= 2
    /\ Len(getFilteredProducts(products, searchTerm)) < Len(products)
    /\ products[1].name = <<"B", "x">>

\* C10: every stored product has a non-empty name, a price >= 0 and a
\* stock >= 0
C10_StoredProductsValid ==
    \A i \in 1..Len(products) :
        /\ products[i].name # <<>>
        /\ ~isNaN(products[i].price) /\ products[i].price.v >= 0
        /\ ~isNaN(products[i].stock) /\ products[i].stock.v >= 0

C10_Witness ==
    /\ event.op = "submit"
    /\ event.res = "updated"
    /\ event.form = VariantDraft
    /\ event.product.stock = Num(2)
    /\ Len(products) >= 2

\* the id is the id of some product of the collection
InCollection(prods, id) == \E i \in 1..Len(prods) : prods[i].id = id

\* C11: an update or a confirmed delete of an id that no product of the
\* collection has leaves the collection as it was and shows no notification
C11_NotFoundIgnored ==
    [][(\/ Handles("delete") /\ event'.res = "confirmed"
             /\ ~InCollection(products, event'.id)
        \/ Handles("submit") /\ ~FailsValidation(event'.form)
             /\ editingId # null /\ ~InCollection(products, editingId))
        => (products' = products /\ event'.notice = None)]_vars

\* C12: a valid submit while editing an id of the collection writes the new
\* product at an index that held that id and nowhere else: the length and the
\* sequence of ids are kept and every other index holds what it held
C12_UpdateInPlace ==
    [][(Handles("submit") /\ ~FailsValidation(event'.form)
         /\ editingId # null /\ InCollection(products, editingId))
        => /\ Len(products') = Len(products)
           /\ IdsOf(products') = IdsOf(products)
           /\ \E i \in 1..Len(products) :
                /\ products[i].id = editingId
                /\ products'[i] = event'.product
                /\ \A j \in 1..Len(products) \ {i} : products'[j] = products[j]]_vars

C12_Witness ==
    /\ event.op = "submit"
    /\ event.res = "updated"
    /\ Len(products) >= 3
    /\ products[2] # event.pre[2]
    /\ products[1] = event.pre[1]
    /\ products[3] = event.pre[3]

\* a is b with some elements left out, the others in the order they have in b
RECURSIVE IsSubsequence(_, _)
IsSubsequence(a, b) ==
    IF a = <<>> THEN TRUE
    ELSE IF b = <<>> THEN FALSE
    ELSE IF Head(a) = Head(b) THEN IsSubsequence(Tail(a), Tail(b))
    ELSE IsSubsequence(a, Tail(b))

\* C13: a valid submit in create mode puts the new product after all the
\* products already there, which keep their places; any other step either
\* keeps every id at its index (an update, or no change) or leaves products
\* out and keeps the others in the order they had
C13_InsertionOrder ==
    [][/\ (Handles("submit") /\ ~FailsValidation(event'.form) /\ editingId = null)
            => /\ Len(products') = Len(products) + 1
               /\ SubSeq(products', 1, Len(products)) = products
               /\ products'[Len(products')].name = Trim(event'.form.name)
       /\ ~(Handles("submit") /\ ~FailsValidation(event'.form) /\ editingId = null)
            => \/ IdsOf(products') = IdsOf(products)
               \/ IsSubsequence(products', products)]_vars

C13_Witness ==
    /\ event.op = "submit"
    /\ event.res = "added"
    /\ Len(products) >= 3
    /\ SubSeq(products, 1, Len(products) - 1) = event.pre
    /\ products[Len(products)].name # products[1].name
    /\ products[Len(products)].id # products[1].id

\* C14: switchView(mode) makes mode the view mode and renders; the page, the
\* search term, the pending timer, the collection and the edit session are
\* what they were
C14_SwitchViewFrame ==
    [][Handles("view")
        => /\ currentView' = event'.view
           /\ event'.rendered
           /\ UNCHANGED <<products, currentPage, searchTerm, editingId,
                          debounceTimer, timers>>]_vars

C14_Witness ==
    /\ event.op = "view"
    /\ event.view = "card"
    /\ currentView = "card"
    /\ currentPage = 2
    /\ searchTerm # <<>>
    /\ timers # {}
    /\ editingId # null

\* C15: editProduct(id) changes nothing but the editing id, which becomes id
\* when a product of the collection has that id and stays what it was (null
\* or another id) when none has; the editing id takes a new id in no other way
C15_BeginEditNotFound ==
    /\ [][Handles("edit")
            => /\ editingId' = IF InCollection(products, event'.id)
                                THEN event'.id ELSE editingId
               /\ ~event'.rendered /\ event'.notice = None
               /\ UNCHANGED <<products, currentView, currentPage, searchTerm,
                              debounceTimer, timers>>]_vars
    /\ [][(editingId' # editingId /\ editingId' # null)
            => (Handles("edit") /\ InCollection(products, editingId'))]_vars

C15_Witness ==
    /\ event.op = "edit"
    /\ ~InCollection(products, event.id)
    /\ editingId # null
    /\ editingId # event.id
    /\ products # <<>>

\* C16: the current page is at least 1 and, when some product matches the
\* search term, at most the number of pages, so that the slice of the current
\* page is not empty
C16_PagingConsistent ==
    LET view == getPaginatedProducts(products, searchTerm, currentPage)
    IN  /\ currentPage >= 1
        /\ view.total > 0 => (currentPage <= view.totalPages /\ view.products # <<>>)

\* C17: a handler other than the search's own (a submit, a delete, a switch
\* of view, a change of page) never renders between a keystroke, which sets
\* the search term, and the reset of the page that belongs to it
C17_SearchEffectsNotSeparated ==
    [][(\E op \in {"submit", "delete", "view", "page"} : Handles(op)
         /\ event'.rendered)
        => timers = {}]_vars

\* C18: the editing id is null or the id of a product of the collection
C18_EditSessionConsistent ==
    editingId = null \/ InCollection(products, editingId)

\* C19: a pending search timer leads to its callback having run (the page is
\* 1, the view is rendered with the search term of the last keystroke, no
\* timer is left pending) unless a further keystroke reschedules it first;
\* the handler of a keystroke returns to the event loop; a timer that has
\* fired is not pending again without a keystroke
C19_PendingSearchApplied ==
    /\ (timers # {})
          ~> (\/ /\ event.op = "fire"
                 /\ event.rendered
                 /\ event.term = searchTerm
                 /\ currentPage = 1
                 /\ timers = {}
              \/ event.op = "search" /\ event.res = "rescheduled")
    /\ (event.op = "search") ~> (event.op = "idle")
    /\ [][timers = {} /\ timers' # {} => Handles("search")]_vars

C19_Witness ==
    /\ event.op = "fire"
    /\ event.term = <<"a">>
    /\ searchTerm = <<"a">>
    /\ currentPage = 1
    /\ timers = {}
    /\ Len(products) = 7

\* C20: the collection changes only in a submit or a delete and the current
\* page only in a changePage or when the search timer fires; a keystroke, the
\* timer, changePage, switchView, editProduct and cancelEdit keep the
\* collection; a submit, a delete, editProduct and cancelEdit keep the page,
\* the search term and the view mode
C20_FrameConditions ==
    [][/\ products' # products => (Handles("submit") \/ Handles("delete"))
       /\ currentPage' # currentPage => (Handles("fire") \/ Handles("page"))
       /\ (\E op \in {"search", "fire", "page", "view", "edit", "cancel"} : Handles(op))
            => products' = products
       /\ (\E op \in {"submit", "delete", "edit", "cancel"} : Handles(op))
            => UNCHANGED <<currentPage, searchTerm, currentView>>]_vars

C20_Witness ==
    /\ event.op = "submit"
    /\ event.res = "added"
    /\ products = Append(event.pre, event.product)
    /\ currentPage = 2
    /\ searchTerm # <<>>
    /\ currentView = "card"

====
